---- MODULE Spec2Model ----
(***************************************************************************)
(* Model of tensor_chess_fixed-4.py: the rules engine of play_game.  The   *)
(* state is the 8x8 board of piece codes, the module-level castling flags  *)
(* and en-passant target, the side to move, the locals of the loop         *)
(* iteration of play_game that was just executed, and the score table.     *)
(* One step of the model is one iteration of the `while True` loop of      *)
(* play_game: the two inputs it reads (the origin label and the menu       *)
(* number) are the parameters of the actions.  Console output is not       *)
(* modelled.  Origin labels are the 64 well-formed labels a1..h8 plus a    *)
(* malformed one that makes pos_to_coord raise.  home_rooks is a history   *)
(* variable: the corners whose rook is the one create_initial_board_tf put *)
(* there and that has not left the corner since.                           *)
(***************************************************************************)
EXTENDS Integers, Sequences, FiniteSets, TLC

VARIABLES board, white_to_move, en_passant_target,
          white_king_moved, black_king_moved,
          white_rook_moved_k, white_rook_moved_q,
          black_rook_moved_k, black_rook_moved_q,
          turn, pc, winner, scores, plies, home_rooks

flags == <<white_king_moved, black_king_moved,
           white_rook_moved_k, white_rook_moved_q,
           black_rook_moved_k, black_rook_moved_q>>

vars == <<board, white_to_move, en_passant_target, flags, turn, pc, winner, scores,
          plies, home_rooks>>

\* ---- bounds of the exploration ------------------------------------------
\* applied turns explored per game
MaxPlies == 10
\* applied turns explored in the long game of SpecCorner
MaxCornerPlies == 15
\* applied turns explored by SpecLabels
MaxLabelPlies == 1

\* ---- 1. piece encoding ----------------------------------------------------
piece2idx ==
    [wP |-> 1, wR |-> 2, wN |-> 3, wB |-> 4, wQ |-> 5, wK |-> 6,
     bP |-> 7, bR |-> 8, bN |-> 9, bB |-> 10, bQ |-> 11, bK |-> 12]

\* Python's None (falsy, like the empty tuple)
None == <<>>

Rows == 0..7

\* ---- 2. board construction ------------------------------------------------
create_initial_board_tf ==
    LET p == piece2idx
        rank0 == <<p.bR, p.bN, p.bB, p.bQ, p.bK, p.bB, p.bN, p.bR>>
        rank7 == <<p.wR, p.wN, p.wB, p.wQ, p.wK, p.wB, p.wN, p.wR>>
    IN [r \in Rows |->
          [c \in Rows |->
              CASE r = 0 -> rank0[c + 1]
                [] r = 1 -> p.bP
                [] r = 6 -> p.wP
                [] r = 7 -> rank7[c + 1]
                [] OTHER -> 0]]

\* ---- 3. utility helpers ---------------------------------------------------
get_piece(b, r, c) == b[r][c]

set_piece(b, r, c, code) == [b EXCEPT ![r][c] = code]

\* ord() and chr() on the file letters, int() and str() on the rank digits
FileChars == <<"a", "b", "c", "d", "e", "f", "g", "h">>
DigitChars == <<"0", "1", "2", "3", "4", "5", "6", "7", "8", "9">>

ord(ch) == 96 + (CHOOSE i \in 1..8 : FileChars[i] = ch)
chr(n) == FileChars[n - 96]
IsDigit(ch) == \E i \in 1..10 : DigitChars[i] = ch
int(ch) == (CHOOSE i \in 1..10 : DigitChars[i] = ch) - 1
str(n) == DigitChars[n + 1]

\* a label is the sequence of the characters typed
\* mutant: the rank digit is used as the row
pos_to_coord_rank_is_row(pos) == <<int(pos[2]) - 1, ord(pos[1]) - ord("a")>>

pos_to_coord(pos) == <<8 - int(pos[2]), ord(pos[1]) - ord("a")>>

\* mutant: the rank is counted from the top row
coord_to_pos_from_top(r, c) == <<chr(c + ord("a")), str(r + 1)>>

coord_to_pos(r, c) == <<chr(c + ord("a")), str(8 - r)>>

in_bounds(r, c) == 0 <= r /\ r < 8 /\ 0 <= c /\ c < 8

\* mutant: the black king is looked up under the black queen's code
king_exists_wrong_code(b, white) ==
    LET target == IF white THEN 6 ELSE 11
    IN \E r \in Rows : \E c \in Rows : b[r][c] = target

king_exists(b, white) ==
    LET target == IF white THEN 6 ELSE 12
    IN \E r \in Rows : \E c \in Rows : get_piece(b, r, c) = target

abs(x) == IF x < 0 THEN -x ELSE x

\* ---- 4. move generation ---------------------------------------------------
is_enemy(b, white, r, c) ==
    LET t == get_piece(b, r, c) IN t # 0 /\ ((t <= 6) # white)

\* mutant: the test of line 87 is not nested under the test of line 85, the
\* double step does not look at the square it passes over
PawnMoves_jumps(b, row, col, white) ==
    LET d == IF white THEN -1 ELSE 1
        start_row == IF white THEN 6 ELSE 1
        forward ==
            (IF in_bounds(row + d, col) /\ get_piece(b, row + d, col) = 0
             THEN <<<<row + d, col>>>> ELSE <<>>) \o
            (IF row = start_row /\ get_piece(b, row + 2 * d, col) = 0
             THEN <<<<row + 2 * d, col>>>> ELSE <<>>)
        capture(dc) ==
            IF in_bounds(row + d, col + dc) /\ is_enemy(b, white, row + d, col + dc)
            THEN <<<<row + d, col + dc>>>> ELSE <<>>
        passant ==
            IF en_passant_target # None
            THEN LET er == en_passant_target[1]
                     ec == en_passant_target[2]
                 IN IF row = (IF white THEN 3 ELSE 4) /\ abs(ec - col) = 1 /\ er = row + d
                    THEN <<<<er, ec>>>> ELSE <<>>
            ELSE <<>>
    IN forward \o capture(-1) \o capture(1) \o passant

\* lines 82-97
PawnMoves(b, row, col, white) ==
    LET d == IF white THEN -1 ELSE 1
        start_row == IF white THEN 6 ELSE 1
        forward ==
            IF in_bounds(row + d, col) /\ get_piece(b, row + d, col) = 0
            THEN <<<<row + d, col>>>> \o
                 (IF row = start_row /\ get_piece(b, row + 2 * d, col) = 0
                  THEN <<<<row + 2 * d, col>>>> ELSE <<>>)
            ELSE <<>>
        capture(dc) ==
            IF in_bounds(row + d, col + dc) /\ is_enemy(b, white, row + d, col + dc)
            THEN <<<<row + d, col + dc>>>> ELSE <<>>
        passant ==
            IF en_passant_target # None
            THEN LET er == en_passant_target[1]
                     ec == en_passant_target[2]
                 IN IF row = (IF white THEN 3 ELSE 4) /\ abs(ec - col) = 1 /\ er = row + d
                    THEN <<<<er, ec>>>> ELSE <<>>
            ELSE <<>>
    IN forward \o capture(-1) \o capture(1) \o passant

\* mutant: the break of lines 109, 123, 137 is only taken on a piece of the
\* mover's side, the ray runs on through a captured piece
RECURSIVE Ray_runs_through_enemy(_, _, _, _, _, _)
Ray_runs_through_enemy(b, white, r, c, dr, dc) ==
    IF ~in_bounds(r, c) THEN <<>>
    ELSE LET t == get_piece(b, r, c)
         IN IF t = 0 \/ (t <= 6) # white
            THEN <<<<r, c>>>> \o Ray_runs_through_enemy(b, white, r + dr, c + dc, dr, dc)
            ELSE <<>>

\* the while loop of lines 102-111 (and 116-125, 130-139), started at (r, c)
RECURSIVE Ray(_, _, _, _, _, _)
Ray(b, white, r, c, dr, dc) ==
    IF ~in_bounds(r, c) THEN <<>>
    ELSE LET t == get_piece(b, r, c)
         IN IF t = 0 THEN <<<<r, c>>>> \o Ray(b, white, r + dr, c + dc, dr, dc)
            ELSE IF (t <= 6) # white THEN <<<<r, c>>>> ELSE <<>>

RECURSIVE Rays(_, _, _, _, _)
Rays(b, white, row, col, dirs) ==
    IF dirs = <<>> THEN <<>>
    ELSE Ray(b, white, row + dirs[1][1], col + dirs[1][2], dirs[1][1], dirs[1][2])
         \o Rays(b, white, row, col, Tail(dirs))

RookDirs == <<<<-1, 0>>, <<1, 0>>, <<0, -1>>, <<0, 1>>>>
BishopDirs == <<<<-1, -1>>, <<-1, 1>>, <<1, -1>>, <<1, 1>>>>
QueenDirs == RookDirs \o BishopDirs
KingDirs == <<<<-1, -1>>, <<-1, 0>>, <<-1, 1>>, <<0, -1>>,
              <<0, 1>>, <<1, -1>>, <<1, 0>>, <<1, 1>>>>
KnightDirs == <<<<-2, -1>>, <<-2, 1>>, <<-1, -2>>, <<-1, 2>>,
                <<1, -2>>, <<1, 2>>, <<2, -1>>, <<2, 1>>>>

\* mutant: the tests of lines 149 and 176 are missing
RECURSIVE Steps_onto_own(_, _, _, _, _)
Steps_onto_own(b, white, row, col, dirs) ==
    IF dirs = <<>> THEN <<>>
    ELSE (IF in_bounds(row + dirs[1][1], col + dirs[1][2])
          THEN <<<<row + dirs[1][1], col + dirs[1][2]>>>> ELSE <<>>)
         \o Steps_onto_own(b, white, row, col, Tail(dirs))

\* the single-step loops of lines 142-150 (king) and 171-177 (knight)
RECURSIVE Steps(_, _, _, _, _)
Steps(b, white, row, col, dirs) ==
    IF dirs = <<>> THEN <<>>
    ELSE LET r == row + dirs[1][1]
             c == col + dirs[1][2]
             t == get_piece(b, r, c)
         IN (IF in_bounds(r, c) /\ (t = 0 \/ (t <= 6) # white)
             THEN <<<<r, c>>>> ELSE <<>>)
            \o Steps(b, white, row, col, Tail(dirs))

\* mutant: lines 159 and 164 do not test the king's flag
CastlingMoves_ignores_king_flag(b, sr, white) ==
    LET wing(rook_moved, rook, kingside) ==
            IF kingside
            THEN IF ~rook_moved /\ get_piece(b, sr, 7) = rook
                    /\ get_piece(b, sr, 5) = 0 /\ get_piece(b, sr, 6) = 0
                 THEN <<<<sr, 6>>>> ELSE <<>>
            ELSE IF ~rook_moved /\ get_piece(b, sr, 0) = rook
                    /\ get_piece(b, sr, 1) = 0 /\ get_piece(b, sr, 2) = 0
                    /\ get_piece(b, sr, 3) = 0
                 THEN <<<<sr, 2>>>> ELSE <<>>
    IN IF white
       THEN wing(white_rook_moved_k, 2, TRUE) \o wing(white_rook_moved_q, 2, FALSE)
       ELSE wing(black_rook_moved_k, 8, TRUE) \o wing(black_rook_moved_q, 8, FALSE)

\* lines 159-168
CastlingMoves(b, sr, white) ==
    LET wing(rook_moved, rook, kingside) ==
            IF kingside
            THEN IF ~rook_moved /\ get_piece(b, sr, 7) = rook
                    /\ get_piece(b, sr, 5) = 0 /\ get_piece(b, sr, 6) = 0
                 THEN <<<<sr, 6>>>> ELSE <<>>
            ELSE IF ~rook_moved /\ get_piece(b, sr, 0) = rook
                    /\ get_piece(b, sr, 1) = 0 /\ get_piece(b, sr, 2) = 0
                    /\ get_piece(b, sr, 3) = 0
                 THEN <<<<sr, 2>>>> ELSE <<>>
    IN IF white /\ ~white_king_moved
       THEN wing(white_rook_moved_k, 2, TRUE) \o wing(white_rook_moved_q, 2, FALSE)
       ELSE IF ~white /\ ~black_king_moved
       THEN wing(black_rook_moved_k, 8, TRUE) \o wing(black_rook_moved_q, 8, FALSE)
       ELSE <<>>

\* the squares whose occupant the pawn branch reads without a preceding
\* in_bounds test: the pawn's own square (line 70) and the two-step square
\* (line 87)
PawnReads(b, row, col, white) ==
    LET d == IF white THEN -1 ELSE 1
        start_row == IF white THEN 6 ELSE 1
    IN {<<row, col>>} \cup
       (IF in_bounds(row + d, col) /\ get_piece(b, row + d, col) = 0 /\ row = start_row
        THEN {<<row + 2 * d, col>>} ELSE {})

\* the squares of the king's row that lines 157-168 can read
CastlingReads(row) == {<<row, c>> : c \in {0, 1, 2, 3, 5, 6, 7}}

\* the squares get_possible_moves reads without a preceding in_bounds test
UnguardedReads(b, row, col) ==
    LET code == get_piece(b, row, col)
        ptype == IF code <= 6 THEN code ELSE code - 6
    IN IF code = 0 THEN {<<row, col>>}
       ELSE IF ptype = 1 THEN PawnReads(b, row, col, code <= 6)
       ELSE IF ptype = 6 THEN {<<row, col>>} \cup CastlingReads(row)
       ELSE {<<row, col>>}

get_possible_moves(b, row, col) ==
    LET code == get_piece(b, row, col)
        white == code <= 6
        ptype == IF white THEN code ELSE code - 6
    IN IF code = 0 THEN <<>>
       ELSE CASE ptype = 1 -> PawnMoves(b, row, col, white)
              [] ptype = 2 -> Rays(b, white, row, col, RookDirs)
              [] ptype = 4 -> Rays(b, white, row, col, BishopDirs)
              [] ptype = 5 -> Rays(b, white, row, col, QueenDirs)
              [] ptype = 6 -> Steps(b, white, row, col, KingDirs)
                              \o CastlingMoves(b, row, white)
              [] ptype = 3 -> Steps(b, white, row, col, KnightDirs)
              [] OTHER -> <<>>

\* ---- 5. special move functions --------------------------------------------
\* the module-level state a move rewrites: the board and the six flags
Globals(b) ==
    [board |-> b,
     white_king_moved |-> white_king_moved, black_king_moved |-> black_king_moved,
     white_rook_moved_k |-> white_rook_moved_k, white_rook_moved_q |-> white_rook_moved_q,
     black_rook_moved_k |-> black_rook_moved_k, black_rook_moved_q |-> black_rook_moved_q]

\* mutant: the tests of lines 193 and 204 are missing
is_castling_move_ignores_king_flag(b, sr, sc, er, ec, wtm) ==
    IF sr # (IF wtm THEN 7 ELSE 0) \/ sc # 4 THEN FALSE
    ELSE IF er # sr \/ abs(ec - sc) # 2 THEN FALSE
    ELSE LET rook == IF wtm THEN 2 ELSE 8
             rook_moved_k == IF wtm THEN white_rook_moved_k ELSE black_rook_moved_k
             rook_moved_q == IF wtm THEN white_rook_moved_q ELSE black_rook_moved_q
         IN IF ec = 6
            THEN IF rook_moved_k \/ get_piece(b, sr, 5) # 0 \/ get_piece(b, sr, 6) # 0
                 THEN FALSE
                 ELSE get_piece(b, sr, 7) = rook
            ELSE IF ec = 2
            THEN IF rook_moved_q \/ get_piece(b, sr, 1) # 0
                    \/ get_piece(b, sr, 2) # 0 \/ get_piece(b, sr, 3) # 0
                 THEN FALSE
                 ELSE get_piece(b, sr, 0) = rook
            ELSE FALSE

is_castling_move(b, sr, sc, er, ec, wtm) ==
    IF sr # (IF wtm THEN 7 ELSE 0) \/ sc # 4 THEN FALSE
    ELSE IF er # sr \/ abs(ec - sc) # 2 THEN FALSE
    ELSE IF wtm
    THEN IF white_king_moved THEN FALSE
         ELSE IF ec = 6
         THEN IF white_rook_moved_k \/ get_piece(b, sr, 5) # 0 \/ get_piece(b, sr, 6) # 0
              THEN FALSE
              ELSE get_piece(b, sr, 7) = 2
         ELSE IF ec = 2
         THEN IF white_rook_moved_q \/ get_piece(b, sr, 1) # 0
                 \/ get_piece(b, sr, 2) # 0 \/ get_piece(b, sr, 3) # 0
              THEN FALSE
              ELSE get_piece(b, sr, 0) = 2
         ELSE FALSE
    ELSE IF black_king_moved THEN FALSE
         ELSE IF ec = 6
         THEN IF black_rook_moved_k \/ get_piece(b, sr, 5) # 0 \/ get_piece(b, sr, 6) # 0
              THEN FALSE
              ELSE get_piece(b, sr, 7) = 8
         ELSE IF ec = 2
         THEN IF black_rook_moved_q \/ get_piece(b, sr, 1) # 0
                 \/ get_piece(b, sr, 2) # 0 \/ get_piece(b, sr, 3) # 0
              THEN FALSE
              ELSE get_piece(b, sr, 0) = 8
         ELSE FALSE

\* mutant: lines 229 and 237 are missing, the rook's corner is not cleared
CastlingBoard_keeps_corner(b, sr, sc, er, ec) ==
    LET b1 == set_piece(b, er, ec, get_piece(b, sr, sc))
        b2 == set_piece(b1, sr, sc, 0)
    IN IF ec > sc
       THEN set_piece(b2, sr, 5, get_piece(b2, sr, 7))
       ELSE set_piece(b2, sr, 3, get_piece(b2, sr, 0))

\* lines 222-229 and 235-237: the squares handle_castling rewrites
CastlingBoard(b, sr, sc, er, ec) ==
    LET b1 == set_piece(b, er, ec, get_piece(b, sr, sc))
        b2 == set_piece(b1, sr, sc, 0)
    IN IF ec > sc
       THEN set_piece(set_piece(b2, sr, 5, get_piece(b2, sr, 7)), sr, 7, 0)
       ELSE set_piece(set_piece(b2, sr, 3, get_piece(b2, sr, 0)), sr, 0, 0)

\* mutant: lines 243-246 are missing, castling does not set the king's flag
handle_castling_keeps_king_flag(b, sr, sc, er, ec) ==
    LET white == get_piece(b, sr, sc) <= 6
        g == Globals(CastlingBoard(b, sr, sc, er, ec))
    IN [g EXCEPT
          !.white_rook_moved_k = IF ec > sc /\ white THEN TRUE ELSE @,
          !.black_rook_moved_k = IF ec > sc /\ ~white THEN TRUE ELSE @,
          !.white_rook_moved_q = IF ~(ec > sc) /\ white THEN TRUE ELSE @,
          !.black_rook_moved_q = IF ~(ec > sc) /\ ~white THEN TRUE ELSE @]

handle_castling(b, sr, sc, er, ec) ==
    LET white == get_piece(b, sr, sc) <= 6
        g == Globals(CastlingBoard(b, sr, sc, er, ec))
    IN [g EXCEPT
          !.white_rook_moved_k = IF ec > sc /\ white THEN TRUE ELSE @,
          !.black_rook_moved_k = IF ec > sc /\ ~white THEN TRUE ELSE @,
          !.white_rook_moved_q = IF ~(ec > sc) /\ white THEN TRUE ELSE @,
          !.black_rook_moved_q = IF ~(ec > sc) /\ ~white THEN TRUE ELSE @,
          !.white_king_moved = IF white THEN TRUE ELSE @,
          !.black_king_moved = IF ~white THEN TRUE ELSE @]

is_en_passant(b, sr, sc, er, ec, wtm) ==
    IF get_piece(b, sr, sc) # (IF wtm THEN 1 ELSE 7) THEN FALSE
    ELSE <<er, ec>> = en_passant_target

\* mutant: line 258 clears the destination's row instead of the origin's
handle_en_passant_clears_destination_row(b, sr, sc, er, ec, wtm) ==
    LET b1 == set_piece(b, er, ec, get_piece(b, sr, sc))
        b2 == set_piece(b1, sr, sc, 0)
    IN set_piece(b2, er, sc, 0)

handle_en_passant(b, sr, sc, er, ec, wtm) ==
    LET b1 == set_piece(b, er, ec, get_piece(b, sr, sc))
        b2 == set_piece(b1, sr, sc, 0)
    IN set_piece(b2, sr, ec, 0)

\* mutant: the two final ranks of lines 262 and 264 are swapped
handle_promotion_swapped_ranks(b, r, c) ==
    LET piece == get_piece(b, r, c)
    IN IF piece = 1 /\ r = 7 THEN set_piece(b, r, c, 5)
       ELSE IF piece = 7 /\ r = 0 THEN set_piece(b, r, c, 11)
       ELSE b

\* mutant: lines 263 and 265 write the king's code
handle_promotion_to_king(b, r, c) ==
    LET piece == get_piece(b, r, c)
    IN IF piece = 1 /\ r = 0 THEN set_piece(b, r, c, 6)
       ELSE IF piece = 7 /\ r = 7 THEN set_piece(b, r, c, 12)
       ELSE b

handle_promotion(b, r, c) ==
    LET piece == get_piece(b, r, c)
    IN IF piece = 1 /\ r = 0 THEN set_piece(b, r, c, 5)
       ELSE IF piece = 7 /\ r = 7 THEN set_piece(b, r, c, 11)
       ELSE b

\* ---- 6. game loop ---------------------------------------------------------
\* Python's list indexing: moves[idx] raises IndexError unless -len <= idx < len
IndexOK(seq, idx) == (0 <= idx /\ idx < Len(seq)) \/ (idx < 0 /\ -Len(seq) <= idx)
Item(seq, idx) == IF idx >= 0 THEN seq[idx + 1] ELSE seq[Len(seq) + idx + 1]

\* the locals of one loop iteration before anything is read
NoTurn ==
    [start |-> <<>>, sr |-> -1, sc |-> -1, scode |-> -1, moves |-> <<>>,
     er |-> -1, ec |-> -1, branch |-> "none", exit |-> "none"]

\* lines 297-315: the origin and the menu number are read and validated.
\* start is the sequence of characters typed; choice is the second line typed,
\* [numeric |-> whether int() accepts it, value |-> the integer it denotes].
Selection(start, choice) ==
    IF Len(start) < 2 \/ ~IsDigit(start[2])
    THEN [NoTurn EXCEPT !.start = start, !.exit = "invalid_input"]
    ELSE LET p == pos_to_coord(start)
             sr == p[1]
             sc == p[2]
             scode == get_piece(board, sr, sc)
             t1 == [NoTurn EXCEPT !.start = start, !.sr = sr, !.sc = sc, !.scode = scode]
         IN IF scode = 0 \/ (scode <= 6) # white_to_move
            THEN [t1 EXCEPT !.exit = "wrong_square"]
            ELSE LET moves == get_possible_moves(board, sr, sc)
                     t2 == [t1 EXCEPT !.moves = moves]
                 IN IF moves = <<>>
                    THEN [t2 EXCEPT !.exit = "no_moves"]
                    ELSE IF ~choice.numeric \/ ~IndexOK(moves, choice.value - 1)
                    THEN [t2 EXCEPT !.exit = "invalid_input"]
                    ELSE [t2 EXCEPT !.er = Item(moves, choice.value - 1)[1],
                                    !.ec = Item(moves, choice.value - 1)[2],
                                    !.exit = "chosen"]

Rejections == {"invalid_input", "wrong_square", "no_moves"}

\* lines 322-323
piece_score(t) ==
    CASE t \in {1, 7} -> 1
      [] t \in {2, 8, 3, 9} -> 3
      [] t \in {4, 10} -> 5
      [] t \in {5, 11} -> 9
      [] OTHER -> 0

\* mutant: the king flags are assigned the test's value instead of set to True
UpdateRights_assigns_test(g, sr, sc, scode) ==
    [g EXCEPT
       !.white_rook_moved_q = IF scode = 2 /\ sr = 7 /\ sc = 0 THEN TRUE ELSE @,
       !.white_rook_moved_k = IF scode = 2 /\ sr = 7 /\ sc = 7 THEN TRUE ELSE @,
       !.black_rook_moved_q = IF scode = 8 /\ sr = 0 /\ sc = 0 THEN TRUE ELSE @,
       !.black_rook_moved_k = IF scode = 8 /\ sr = 0 /\ sc = 7 THEN TRUE ELSE @,
       !.white_king_moved = (scode = 6),
       !.black_king_moved = (scode = 12)]

\* lines 336-358: the flag updates of a simple relocation, on the globals g
UpdateRights(g, sr, sc, scode) ==
    LET g1 == [g EXCEPT
                 !.white_rook_moved_q = IF scode = 2 /\ sr = 7 /\ sc = 0 THEN TRUE ELSE @,
                 !.white_rook_moved_k = IF scode = 2 /\ sr = 7 /\ sc = 7 THEN TRUE ELSE @,
                 !.black_rook_moved_q = IF scode = 8 /\ sr = 0 /\ sc = 0 THEN TRUE ELSE @,
                 !.black_rook_moved_k = IF scode = 8 /\ sr = 0 /\ sc = 7 THEN TRUE ELSE @]
    IN IF scode = 6 THEN [g1 EXCEPT !.white_king_moved = TRUE]
       ELSE IF scode = 12 THEN [g1 EXCEPT !.black_king_moved = TRUE]
       ELSE IF scode = 2 /\ sr = 7 /\ sc = 0 THEN [g1 EXCEPT !.white_rook_moved_q = TRUE]
       ELSE IF scode = 2 /\ sr = 7 /\ sc = 7 THEN [g1 EXCEPT !.white_rook_moved_k = TRUE]
       ELSE IF scode = 8 /\ sr = 0 /\ sc = 0 THEN [g1 EXCEPT !.black_rook_moved_q = TRUE]
       ELSE IF scode = 8 /\ sr = 0 /\ sc = 7 THEN [g1 EXCEPT !.black_rook_moved_k = TRUE]
       ELSE g1

\* mutant: line 334 is missing, the origin is not cleared
SimpleMove_keeps_origin(b, sr, sc, er, ec, scode) ==
    UpdateRights(Globals(set_piece(b, er, ec, scode)), sr, sc, scode)

\* lines 333-358: the simple relocation and its flag updates
SimpleMove(b, sr, sc, er, ec, scode) ==
    UpdateRights(Globals(set_piece(set_piece(b, er, ec, scode), sr, sc, 0)),
                 sr, sc, scode)

\* lines 326-332: which of the three branches applies the move
Branch(b, sr, sc, er, ec, wtm) ==
    IF is_castling_move(b, sr, sc, er, ec, wtm) THEN "castling"
    ELSE IF is_en_passant(b, sr, sc, er, ec, wtm) THEN "en_passant"
    ELSE "simple"

\* lines 326-358: the board and flags after the move
Moved(b, sr, sc, er, ec, scode, wtm) ==
    LET br == Branch(b, sr, sc, er, ec, wtm)
    IN IF br = "castling" THEN handle_castling(b, sr, sc, er, ec)
       ELSE IF br = "en_passant" THEN Globals(handle_en_passant(b, sr, sc, er, ec, wtm))
       ELSE SimpleMove(b, sr, sc, er, ec, scode)

\* mutant: the else branch of lines 368-369 is missing, the target is kept
NextEnPassantTarget_never_cleared(scode, sr, sc, er) ==
    IF scode \in {1, 7} /\ abs(er - sr) = 2
    THEN <<(sr + er) \div 2, sc>>
    ELSE en_passant_target

\* mutant: line 367 records the square the pawn arrived on
NextEnPassantTarget_is_destination(scode, sr, sc, er) ==
    IF scode \in {1, 7} /\ abs(er - sr) = 2
    THEN <<er, sc>>
    ELSE None

\* lines 366-369
NextEnPassantTarget(scode, sr, sc, er) ==
    IF scode \in {1, 7} /\ abs(er - sr) = 2
    THEN <<(sr + er) \div 2, sc>>
    ELSE None

\* mutant: line 382 is missing
NextSide_never_flips(wtm, won) == wtm

\* lines 371-382: the side to move when the iteration ends
NextSide(wtm, won) == IF won THEN wtm ELSE ~wtm

\* lines 321-331, 360-364, 373-374: the points the turn adds for the actor
Points(target_piece, br, promoted, won) ==
    (IF target_piece # 0 THEN piece_score(target_piece) ELSE 0)
    + (IF br = "castling" THEN 3 ELSE IF br = "en_passant" THEN 2 ELSE 0)
    + (IF promoted THEN 5 ELSE 0)
    + (IF won THEN 10 ELSE 0)

\* the squares lines 36 and 39 put a rook on
Corners == {<<0, 0>>, <<0, 7>>, <<7, 0>>, <<7, 7>>}

\* the corners of hr whose occupant is the same on b and on the later board nb
StillHome(hr, b, nb) == {q \in hr : nb[q[1]][q[2]] = b[q[1]][q[2]]}

\* lines 286-291
Init ==
    /\ board = create_initial_board_tf
    /\ white_to_move = TRUE
    /\ en_passant_target = None
    /\ white_king_moved = FALSE /\ black_king_moved = FALSE
    /\ white_rook_moved_k = FALSE /\ white_rook_moved_q = FALSE
    /\ black_rook_moved_k = FALSE /\ black_rook_moved_q = FALSE
    /\ turn = NoTurn
    /\ pc = "loop"
    /\ winner = "none"
    /\ scores = [white_id |-> [wins |-> 0, points |-> 0],
                 black_id |-> [wins |-> 0, points |-> 0]]
    /\ plies = 0
    /\ home_rooks = Corners

\* mutant: line 382 runs after the try statement, on rejected iterations too
RejectTurn_flips_side(start, choice) ==
    /\ pc = "loop"
    /\ Selection(start, choice).exit \in Rejections
    /\ turn' = Selection(start, choice)
    /\ white_to_move' = ~white_to_move
    /\ UNCHANGED <<board, en_passant_target, flags, pc, winner, scores, plies,
                   home_rooks>>

\* an iteration that ends in `continue` (lines 304, 309) or in the except
\* clause (line 385)
RejectTurn(start, choice) ==
    /\ pc = "loop"
    /\ LET t == Selection(start, choice)
       IN /\ t.exit \in Rejections
          /\ turn' = t
    /\ UNCHANGED <<board, white_to_move, en_passant_target, flags,
                   pc, winner, scores, plies, home_rooks>>

\* lines 317-382 for the validated locals t: the values of the module-level
\* state, of the locals and of the score table when the iteration ends
Applied(t) ==
    LET br == Branch(board, t.sr, t.sc, t.er, t.ec, white_to_move)
        g == Moved(board, t.sr, t.sc, t.er, t.ec, t.scode, white_to_move)
        before == get_piece(g.board, t.er, t.ec)
        b == handle_promotion(g.board, t.er, t.ec)
        after == get_piece(b, t.er, t.ec)
        won == ~king_exists(b, ~white_to_move)
        actor == IF white_to_move THEN "white_id" ELSE "black_id"
        gain == Points(get_piece(board, t.er, t.ec), br, before # after, won)
    IN [g EXCEPT !.board = b] @@
       [en_passant_target |-> NextEnPassantTarget(t.scode, t.sr, t.sc, t.er),
        scores |-> [scores EXCEPT ![actor].points = @ + gain,
                                  ![actor].wins = IF won THEN @ + 1 ELSE @],
        pc |-> IF won THEN "returned" ELSE "loop",
        winner |-> IF won THEN actor ELSE winner,
        white_to_move |-> NextSide(white_to_move, won),
        turn |-> [t EXCEPT !.branch = br, !.exit = IF won THEN "won" ELSE "moved"]]

\* an iteration that applies the chosen move (lines 317-382), explored while
\* fewer than `limit` moves were applied
ApplyTurnWithin(limit, start, choice) ==
    /\ pc = "loop"
    /\ plies < limit
    /\ Selection(start, choice).exit = "chosen"
    /\ LET n == Applied(Selection(start, choice))
       IN /\ board' = n.board
          /\ white_king_moved' = n.white_king_moved
          /\ black_king_moved' = n.black_king_moved
          /\ white_rook_moved_k' = n.white_rook_moved_k
          /\ white_rook_moved_q' = n.white_rook_moved_q
          /\ black_rook_moved_k' = n.black_rook_moved_k
          /\ black_rook_moved_q' = n.black_rook_moved_q
          /\ en_passant_target' = n.en_passant_target
          /\ scores' = n.scores
          /\ pc' = n.pc
          /\ winner' = n.winner
          /\ white_to_move' = n.white_to_move
          /\ turn' = n.turn
          /\ home_rooks' = StillHome(home_rooks, board, n.board)
    /\ plies' = plies + 1

ApplyTurn(start, choice) == ApplyTurnWithin(MaxPlies, start, choice)

\* ---- the players ----------------------------------------------------------
\* what a player can type at the second prompt
Number(n) == [numeric |-> TRUE, value |-> n]
NotANumber == [numeric |-> FALSE, value |-> 0]

\* The menu numbers that select the destination labelled `to` in the list
\* printed for the origin `from` (lines 311-313); 0 is accepted by line 315
\* as well and selects the last entry.
MenuNumbers(from, to) ==
    LET p == pos_to_coord(from)
        code == get_piece(board, p[1], p[2])
        moves == IF code # 0 /\ (code <= 6) = white_to_move
                 THEN get_possible_moves(board, p[1], p[2]) ELSE <<>>
    IN {n \in (IF moves = <<>> THEN {} ELSE 0..Len(moves)) :
          coord_to_pos(Item(moves, n - 1)[1], Item(moves, n - 1)[2]) = to}

\* One loop iteration with the players typing either a move of `book`
\* (origin label, destination label) or an entry of `bad` (origin, number).
Play(book, bad) ==
    \/ \E m \in book : \E n \in MenuNumbers(m[1], m[2]) : ApplyTurn(m[1], Number(n))
    \/ \E q \in bad : RejectTurn(q[1], q[2])

\* the moves typed in the games explored by Spec
Book ==
    {<<<<"e", "2">>, <<"e", "4">>>>, <<<<"e", "4">>, <<"e", "5">>>>,
     <<<<"e", "5">>, <<"d", "6">>>>, <<<<"e", "5">>, <<"f", "6">>>>,
     <<<<"e", "5">>, <<"e", "6">>>>, <<<<"e", "6">>, <<"f", "7">>>>,
     <<<<"f", "7">>, <<"e", "8">>>>, <<<<"g", "1">>, <<"f", "3">>>>,
     <<<<"f", "1">>, <<"e", "2">>>>, <<<<"e", "1">>, <<"g", "1">>>>,
     <<<<"c", "2">>, <<"c", "4">>>>, <<<<"d", "7">>, <<"d", "5">>>>,
     <<<<"f", "7">>, <<"f", "5">>>>, <<<<"d", "5">>, <<"d", "4">>>>,
     <<<<"d", "4">>, <<"c", "3">>>>, <<<<"c", "3">>, <<"b", "2">>>>,
     <<<<"b", "2">>, <<"a", "1">>>>, <<<<"e", "7">>, <<"e", "6">>>>,
     <<<<"d", "8">>, <<"h", "4">>>>, <<<<"h", "4">>, <<"f", "2">>>>,
     <<<<"f", "2">>, <<"e", "1">>>>, <<<<"a", "7">>, <<"a", "6">>>>}

BadProposals ==
    {<<<<"e", "5">>, Number(1)>>, <<<<"e", "1">>, Number(1)>>,
     <<<<"e", "2">>, Number(9)>>, <<<<"d", "7">>, NotANumber>>,
     <<<<"e">>, Number(1)>>}

Next == Play(Book, BadProposals)

Spec == Init /\ [][Next]_vars

\* the moves typed in the games explored by SpecCastle
CastleBook ==
    {<<<<"g", "1">>, <<"f", "3">>>>, <<<<"e", "2">>, <<"e", "3">>>>,
     <<<<"f", "1">>, <<"e", "2">>>>, <<<<"e", "1">>, <<"g", "1">>>>,
     <<<<"b", "1">>, <<"c", "3">>>>, <<<<"d", "2">>, <<"d", "4">>>>,
     <<<<"c", "1">>, <<"f", "4">>>>, <<<<"d", "1">>, <<"d", "2">>>>,
     <<<<"e", "1">>, <<"c", "1">>>>, <<<<"g", "8">>, <<"f", "6">>>>,
     <<<<"e", "7">>, <<"e", "6">>>>, <<<<"f", "8">>, <<"e", "7">>>>,
     <<<<"e", "8">>, <<"g", "8">>>>, <<<<"b", "8">>, <<"c", "6">>>>,
     <<<<"d", "7">>, <<"d", "5">>>>, <<<<"c", "8">>, <<"f", "5">>>>,
     <<<<"d", "8">>, <<"d", "7">>>>, <<<<"e", "8">>, <<"c", "8">>>>,
     <<<<"e", "1">>, <<"f", "1">>>>, <<<<"f", "1">>, <<"e", "1">>>>}

CastleBadProposals ==
    {<<<<"e", "1">>, Number(9)>>, <<<<"e", "8">>, Number(9)>>}

NextCastle == Play(CastleBook, CastleBadProposals)

SpecCastle == Init /\ [][NextCastle]_vars

\* the moves typed in the long game explored by SpecCorner: Black's bishop
\* takes the rook on h1, White's other rook comes round to h1
CornerBook ==
    {<<<<"g", "2">>, <<"g", "4">>>>, <<<<"f", "1">>, <<"g", "2">>>>,
     <<<<"a", "2">>, <<"a", "4">>>>, <<<<"a", "1">>, <<"a", "3">>>>,
     <<<<"h", "2">>, <<"h", "4">>>>, <<<<"a", "3">>, <<"h", "3">>>>,
     <<<<"h", "3">>, <<"h", "1">>>>, <<<<"g", "1">>, <<"f", "3">>>>,
     <<<<"e", "1">>, <<"g", "1">>>>,
     <<<<"b", "7">>, <<"b", "6">>>>, <<<<"c", "8">>, <<"b", "7">>>>,
     <<<<"b", "7">>, <<"g", "2">>>>, <<<<"g", "2">>, <<"h", "1">>>>,
     <<<<"h", "7">>, <<"h", "6">>>>, <<<<"h", "6">>, <<"h", "5">>>>,
     <<<<"a", "7">>, <<"a", "6">>>>, <<<<"a", "6">>, <<"a", "5">>>>}

CornerBadProposals ==
    {<<<<"h", "1">>, Number(1)>>, <<<<"e", "1">>, Number(9)>>}

NextCorner ==
    \/ \E m \in CornerBook : \E n \in MenuNumbers(m[1], m[2]) :
          ApplyTurnWithin(MaxCornerPlies, m[1], Number(n))
    \/ \E q \in CornerBadProposals : RejectTurn(q[1], q[2])

SpecCorner == Init /\ [][NextCorner]_vars

\* the moves typed in the games explored by SpecTarget: double steps, the
\* en-passant captures that answer them, and a knight that goes to d6
TargetBook ==
    {<<<<"b", "1">>, <<"c", "3">>>>, <<<<"c", "3">>, <<"b", "5">>>>,
     <<<<"b", "5">>, <<"d", "6">>>>, <<<<"e", "2">>, <<"e", "4">>>>,
     <<<<"e", "4">>, <<"e", "5">>>>, <<<<"e", "5">>, <<"d", "6">>>>,
     <<<<"c", "2">>, <<"c", "4">>>>,
     <<<<"a", "7">>, <<"a", "6">>>>, <<<<"d", "7">>, <<"d", "5">>>>,
     <<<<"d", "5">>, <<"d", "4">>>>, <<<<"d", "4">>, <<"c", "3">>>>,
     <<<<"e", "7">>, <<"e", "6">>>>}

TargetBadProposals ==
    {<<<<"d", "6">>, Number(1)>>, <<<<"e", "5">>, Number(7)>>}

NextTarget == Play(TargetBook, TargetBadProposals)

SpecTarget == Init /\ [][NextTarget]_vars

\* the 64 labels a1..h8
Labels == {<<FileChars[f], DigitChars[k + 1]>> : f \in 1..8, k \in 1..8}

\* every label typed at the first prompt, followed by the first menu number
\* or by a number no menu has
NextLabels ==
    \E start \in Labels : \E choice \in {Number(1), Number(99)} :
       \/ ApplyTurnWithin(MaxLabelPlies, start, choice)
       \/ RejectTurn(start, choice)

SpecLabels == Init /\ [][NextLabels]_vars

\* ---- move generation on its own --------------------------------------------
\* Boards for get_possible_moves as a function of (board, row, col): one
\* sliding piece of either side on any square, one White and one Black pawn.
Sliders == {2, 4, 5, 8, 10, 11}
WhitePawnSquares == {<<1, 3>>, <<3, 3>>, <<4, 2>>, <<6, 5>>}
BlackPawnSquares == {<<4, 4>>, <<4, 6>>, <<2, 5>>, <<6, 3>>}

RayBoards ==
    {[r \in Rows |-> [c \in Rows |->
         IF <<r, c>> = o THEN code
         ELSE IF <<r, c>> = w THEN 1
         ELSE IF <<r, c>> = k THEN 7
         ELSE 0]] :
       o \in Rows \X Rows, code \in Sliders,
       w \in WhitePawnSquares, k \in BlackPawnSquares}

InitRays ==
    /\ board \in RayBoards
    /\ white_to_move = TRUE
    /\ en_passant_target = None
    /\ white_king_moved = FALSE /\ black_king_moved = FALSE
    /\ white_rook_moved_k = FALSE /\ white_rook_moved_q = FALSE
    /\ black_rook_moved_k = FALSE /\ black_rook_moved_q = FALSE
    /\ turn = NoTurn
    /\ pc = "loop"
    /\ winner = "none"
    /\ scores = [white_id |-> [wins |-> 0, points |-> 0],
                 black_id |-> [wins |-> 0, points |-> 0]]
    /\ plies = 0
    /\ home_rooks = Corners

\* line 306: the candidates of the piece on (row, col) are generated
Generate(row, col) ==
    /\ get_piece(board, row, col) # 0
    /\ turn' = [NoTurn EXCEPT !.sr = row, !.sc = col,
                              !.scode = get_piece(board, row, col),
                              !.moves = get_possible_moves(board, row, col),
                              !.exit = "generated"]
    /\ UNCHANGED <<board, white_to_move, en_passant_target, flags,
                   pc, winner, scores, plies, home_rooks>>

NextRays == \E row \in Rows : \E col \in Rows : Generate(row, col)

SpecRays == InitRays /\ [][NextRays]_vars

\* Boards for the pawn branch of get_possible_moves: one pawn of either side
\* on any square a pawn can stand on, a knight of either side or nothing on
\* the square in front of it, on the square two in front and on the square
\* diagonally in front, and an en-passant target or none.
PawnRows == 1..6
Occupants == {0, 3, 9}
Targets == {None, <<2, 3>>, <<5, 4>>}

PawnBoard(o, code, near, far, side) ==
    LET d == IF code = 1 THEN -1 ELSE 1
    IN [r \in Rows |-> [c \in Rows |->
          IF <<r, c>> = o THEN code
          ELSE IF <<r, c>> = <<o[1] + d, o[2]>> THEN near
          ELSE IF <<r, c>> = <<o[1] + 2 * d, o[2]>> THEN far
          ELSE IF <<r, c>> = <<o[1] + d, o[2] + 1>> THEN side
          ELSE 0]]

PawnBoards ==
    {PawnBoard(o, code, near, far, side) :
       o \in PawnRows \X Rows, code \in {1, 7},
       near \in Occupants, far \in Occupants, side \in Occupants}

InitPawns ==
    /\ board \in PawnBoards
    /\ white_to_move = TRUE
    /\ en_passant_target \in Targets
    /\ white_king_moved = FALSE /\ black_king_moved = FALSE
    /\ white_rook_moved_k = FALSE /\ white_rook_moved_q = FALSE
    /\ black_rook_moved_k = FALSE /\ black_rook_moved_q = FALSE
    /\ turn = NoTurn
    /\ pc = "loop"
    /\ winner = "none"
    /\ scores = [white_id |-> [wins |-> 0, points |-> 0],
                 black_id |-> [wins |-> 0, points |-> 0]]
    /\ plies = 0
    /\ home_rooks = {}

\* line 306 for a pawn
GeneratePawn(row, col) ==
    /\ get_piece(board, row, col) \in {1, 7}
    /\ Generate(row, col)

NextPawns == \E row \in Rows : \E col \in Rows : GeneratePawn(row, col)

SpecPawns == InitPawns /\ [][NextPawns]_vars

\* ---- properties -----------------------------------------------------------
\* a step that applied a move
AppliedStep == plies' = plies + 1

\* the last loop iteration applied a move
JustApplied == turn.exit \in {"moved", "won"}

WellFormed(start) == Len(start) >= 2 /\ IsDigit(start[2])

\* The proposal read in a step (turn'.start and the destination turn'.er,
\* turn'.ec selected from the menu, -1 when none was) is, on the state before
\* the step, one the rules reject.
ProposalIsIllegal ==
    /\ WellFormed(turn'.start)
    /\ LET p == pos_to_coord(turn'.start)
           origin == board[p[1]][p[2]]
           cands == get_possible_moves(board, p[1], p[2])
       IN \/ origin = 0
          \/ (origin <= 6) # white_to_move
          \/ cands = <<>>
          \/ ~\E i \in 1..Len(cands) : cands[i] = <<turn'.er, turn'.ec>>

\* C1: a rejected proposal (origin empty or of the side not on move, no
\* candidates, or a destination that is not a generated candidate) leaves the
\* board, the six castling flags, the en-passant target and the side to
\* move as they were.
C1_RejectionChangesNothing ==
    [][ProposalIsIllegal =>
          /\ board' = board
          /\ flags' = flags
          /\ en_passant_target' = en_passant_target
          /\ white_to_move' = white_to_move]_vars

\* a destination outside the menu was rejected while an en-passant target was
\* pending
C1_Witness ==
    /\ turn.exit = "invalid_input"
    /\ turn.moves # <<>>
    /\ en_passant_target # None
    /\ plies > 0

\* the side that made the last applied move
MoverIsWhite == turn.scode <= 6
MoverId == IF MoverIsWhite THEN "white_id" ELSE "black_id"

\* C2: after every applied move the game has ended, won by the side that
\* moved, exactly when no king of the other side is left on the board; once
\* it has ended, the board, the flags and the side to move never change.
C2_WinIffKingCaptured ==
    /\ [](JustApplied =>
            /\ (pc = "returned") <=>
                 (\A r \in Rows : \A c \in Rows :
                     board[r][c] # (IF MoverIsWhite THEN 12 ELSE 6))
            /\ (pc = "returned") => winner = MoverId
            /\ (pc = "loop") => winner = "none")
    /\ [](pc = "returned" => turn.exit = "won")
    /\ [][pc = "returned" =>
            /\ board' = board
            /\ flags' = flags
            /\ white_to_move' = white_to_move]_vars

\* Black has captured the white king
C2_Witness ==
    /\ pc = "returned"
    /\ winner = "black_id"
    /\ \A r \in Rows : \A c \in Rows : board[r][c] # 6

\* C3: White moves first; an applied move moves a piece of the side to move
\* and, unless it ends the game, flips the side to move; a rejected proposal
\* never flips it.
C3_SidesAlternate ==
    /\ [](white_to_move \in BOOLEAN /\ (plies = 0 => white_to_move))
    /\ [][IF AppliedStep
          THEN /\ turn'.scode # 0
               /\ (turn'.scode <= 6) = white_to_move
               /\ board[turn'.sr][turn'.sc] = turn'.scode
               /\ (pc' = "loop") => (white_to_move' = ~white_to_move)
          ELSE white_to_move' = white_to_move]_vars

\* three moves were applied and a proposal of Black was then rejected
C3_Witness ==
    /\ plies = 3
    /\ ~white_to_move
    /\ turn.exit = "wrong_square"

\* ---- castling -------------------------------------------------------------
HomeRow(white) == IF white THEN 7 ELSE 0
KingOf(white) == IF white THEN 6 ELSE 12
RookOf(white) == IF white THEN 2 ELSE 8
KingMoved(white) == IF white THEN white_king_moved ELSE black_king_moved
RookMoved(white, kingside) ==
    IF white THEN (IF kingside THEN white_rook_moved_k ELSE white_rook_moved_q)
    ELSE (IF kingside THEN black_rook_moved_k ELSE black_rook_moved_q)

\* the castling position, for the side to move and one wing
CanCastle(white, kingside) ==
    LET hr == HomeRow(white)
    IN /\ board[hr][4] = KingOf(white)
       /\ board[hr][IF kingside THEN 7 ELSE 0] = RookOf(white)
       /\ ~KingMoved(white)
       /\ ~RookMoved(white, kingside)
       /\ \A c \in (IF kingside THEN {5, 6} ELSE {1, 2, 3}) : board[hr][c] = 0

\* this step applied the turn king-origin -> two columns toward the rook
CastlingTurn(white, kingside) ==
    /\ AppliedStep
    /\ white_to_move = white
    /\ turn'.sr = HomeRow(white) /\ turn'.sc = 4
    /\ turn'.er = HomeRow(white) /\ turn'.ec = (IF kingside THEN 6 ELSE 2)

\* C4: from the castling position, the turn king-origin -> two columns toward
\* the rook leaves, in that one turn, the king on column 6 (2), the rook on
\* column 5 (3), both home squares empty and both moved-flags true.
C4_CastlingIsAtomic ==
    [][\A white \in BOOLEAN : \A kingside \in BOOLEAN :
          (CanCastle(white, kingside) /\ CastlingTurn(white, kingside)) =>
             LET hr == HomeRow(white)
             IN /\ board'[hr][IF kingside THEN 6 ELSE 2] = KingOf(white)
                /\ board'[hr][IF kingside THEN 5 ELSE 3] = RookOf(white)
                /\ board'[hr][4] = 0
                /\ board'[hr][IF kingside THEN 7 ELSE 0] = 0
                /\ IF white
                   THEN /\ white_king_moved'
                        /\ IF kingside THEN white_rook_moved_k' ELSE white_rook_moved_q'
                   ELSE /\ black_king_moved'
                        /\ IF kingside THEN black_rook_moved_k' ELSE black_rook_moved_q']_vars

\* Black has just castled queenside
C4_Witness ==
    /\ turn.exit = "moved"
    /\ turn.scode = 12
    /\ turn.sr = 0 /\ turn.sc = 4 /\ turn.er = 0 /\ turn.ec = 2
    /\ board[0][2] = 12 /\ board[0][3] = 8

\* the candidates of the piece on (r, c) hold a square of its row two
\* columns away
OffersCastling(r, c) ==
    LET moves == get_possible_moves(board, r, c)
    IN \E i \in 1..Len(moves) : moves[i][1] = r /\ abs(moves[i][2] - c) = 2

\* C5: once a side's king_moved flag is true (by castling or otherwise) no
\* candidate list of its king holds a castling destination, and a turn is
\* applied as castling only while the mover's king_moved flag is false.
C5_CastlesAtMostOnce ==
    /\ [](\A white \in BOOLEAN : \A r \in Rows : \A c \in Rows :
            (KingMoved(white) /\ board[r][c] = KingOf(white)) => ~OffersCastling(r, c))
    /\ [][(AppliedStep /\ turn'.branch = "castling") =>
            /\ ~KingMoved(white_to_move)
            /\ IF white_to_move THEN white_king_moved' ELSE black_king_moved']_vars

\* White's king went to f1 and came back: it stands on e1 beside the empty
\* f1 and g1 and the unmoved h1 rook, and its candidates were listed
C5_Witness ==
    /\ white_king_moved
    /\ ~white_rook_moved_k
    /\ board[7][4] = 6 /\ board[7][5] = 0 /\ board[7][6] = 0 /\ board[7][7] = 2
    /\ turn.start = <<"e", "1">>
    /\ turn.moves # <<>>

\* C6: the six flags are false when the game starts and none ever goes from
\* true back to false, whether the turn is applied or rejected.
C6_FlagsAreMonotone ==
    /\ [](plies = 0 => flags = <<FALSE, FALSE, FALSE, FALSE, FALSE, FALSE>>)
    /\ [][/\ white_king_moved => white_king_moved'
          /\ black_king_moved => black_king_moved'
          /\ white_rook_moved_k => white_rook_moved_k'
          /\ white_rook_moved_q => white_rook_moved_q'
          /\ black_rook_moved_k => black_rook_moved_k'
          /\ black_rook_moved_q => black_rook_moved_q']_vars

\* White's king is back on its home square with its flag still true, after
\* a later applied turn
C6_Witness ==
    /\ white_king_moved
    /\ board[7][4] = 6
    /\ turn.exit = "moved"
    /\ turn.scode > 6

\* ---- en passant -----------------------------------------------------------
PawnOf(white) == IF white THEN 1 ELSE 7
QueenOf(white) == IF white THEN 5 ELSE 11

\* the last applied move was a pawn's advance of two rows from its start rank
DoubleStep ==
    /\ turn.scode \in {1, 7}
    /\ turn.sr = (IF MoverIsWhite THEN 6 ELSE 1)
    /\ turn.er = (IF MoverIsWhite THEN 4 ELSE 3)
    /\ turn.ec = turn.sc

\* C7: after an applied turn the en-passant target is the square between
\* origin and destination if the turn was a pawn's two-row advance from its
\* start rank and is none after any other applied turn; no target survives a
\* further applied turn.
C7_EnPassantTargetLifecycle ==
    /\ [](JustApplied =>
            IF DoubleStep
            THEN en_passant_target = <<(IF MoverIsWhite THEN 5 ELSE 2), turn.sc>>
            ELSE en_passant_target = None)
    /\ [][(AppliedStep /\ en_passant_target # None) =>
            en_passant_target' # en_passant_target]_vars

\* a castling turn has ended with no target, Black's d-pawn standing on d5
C7_Witness ==
    /\ turn.exit = "moved"
    /\ turn.branch = "castling"
    /\ en_passant_target = None
    /\ board[3][3] = 7

\* C8: right after a two-row advance every opposing pawn beside the advanced
\* pawn has the passed-over square among its candidates; the turn that takes
\* it puts the capturing pawn on the passed-over square, empties its origin
\* and removes the advanced pawn from the square it stands on (origin row,
\* destination column).
C8_EnPassantCapture ==
    /\ []((turn.exit = "moved" /\ DoubleStep) =>
            \A c \in {turn.ec - 1, turn.ec + 1} \cap Rows :
               board[turn.er][c] = PawnOf(~MoverIsWhite) =>
                  LET moves == get_possible_moves(board, turn.er, c)
                  IN \E i \in 1..Len(moves) :
                        moves[i] = <<(turn.sr + turn.er) \div 2, turn.sc>>)
    /\ [][(/\ AppliedStep
           /\ en_passant_target # None
           /\ turn'.scode = PawnOf(white_to_move)
           /\ <<turn'.er, turn'.ec>> = en_passant_target) =>
            /\ board[turn'.sr][turn'.ec] = PawnOf(~white_to_move)
            /\ board[turn'.er][turn'.ec] = 0
            /\ board'[turn'.er][turn'.ec] = PawnOf(white_to_move)
            /\ board'[turn'.sr][turn'.sc] = 0
            /\ board'[turn'.sr][turn'.ec] = 0]_vars

\* a black pawn has captured en passant
C8_Witness ==
    /\ turn.exit = "moved"
    /\ turn.branch = "en_passant"
    /\ turn.scode = 7
    /\ board[turn.er][turn.ec] = 7
    /\ board[turn.sr][turn.ec] = 0

\* C9: a pawn moved onto its final rank is a queen of its side when the turn
\* ends, also when that turn ends the game; no White pawn stands on row 0 and
\* no Black pawn on row 7.
C9_Promotion ==
    /\ \A c \in Rows : board[0][c] # 1 /\ board[7][c] # 7
    /\ (JustApplied /\ turn.scode \in {1, 7}
          /\ turn.er = (IF MoverIsWhite THEN 0 ELSE 7)) =>
         board[turn.er][turn.ec] = QueenOf(MoverIsWhite)

\* a White pawn took the Black king on row 0: the game is over and the pawn
\* is a queen
C9_Witness ==
    /\ turn.exit = "won"
    /\ turn.scode = 1
    /\ turn.er = 0
    /\ board[0][turn.ec] = 5

\* ---- sliding pieces -------------------------------------------------------
DirsOf(code) ==
    LET ptype == IF code <= 6 THEN code ELSE code - 6
        orth == {<<-1, 0>>, <<1, 0>>, <<0, -1>>, <<0, 1>>}
        diag == {<<-1, -1>>, <<-1, 1>>, <<1, -1>>, <<1, 1>>}
    IN CASE ptype = 2 -> orth
         [] ptype = 4 -> diag
         [] ptype = 5 -> orth \cup diag

\* the squares of the ray from (r, c) in direction d that a slider may reach:
\* every square before the first occupied one, and the first occupied one
\* when it holds a piece of the other side
RaySquares(r, c, d) ==
    {<<r + n * d[1], c + n * d[2]>> : n \in
       {n \in 1..7 :
          /\ r + n * d[1] \in Rows /\ c + n * d[2] \in Rows
          /\ \A k \in 1..(n - 1) : board[r + k * d[1]][c + k * d[2]] = 0
          /\ LET t == board[r + n * d[1]][c + n * d[2]]
             IN t = 0 \/ (t <= 6) # (board[r][c] <= 6)}}

\* C10: for every rook, bishop or queen on the board the candidates are, in
\* each of its directions, exactly the empty squares before the first occupied
\* square plus that square if it holds an opposing piece, each listed once.
C10_SlidingRays ==
    \A r \in Rows : \A c \in Rows :
       board[r][c] \in Sliders =>
          LET moves == get_possible_moves(board, r, c)
          IN /\ {moves[i] : i \in 1..Len(moves)} =
                  UNION {RaySquares(r, c, d) : d \in DirsOf(board[r][c])}
             /\ Cardinality({moves[i] : i \in 1..Len(moves)}) = Len(moves)

\* the candidates of a White queen on d4 were generated with a White pawn
\* right above it and a Black pawn right beside it and another one behind
C10_Witness ==
    /\ turn.exit = "generated"
    /\ turn.scode = 5 /\ turn.sr = 4 /\ turn.sc = 3
    /\ board[3][3] = 1 /\ board[4][4] = 7
    /\ \E i \in 1..Len(turn.moves) : turn.moves[i] = <<4, 4>>
    /\ \A i \in 1..Len(turn.moves) : turn.moves[i] \notin {<<4, 5>>, <<3, 3>>, <<2, 3>>}

\* ---- pawns -----------------------------------------------------------------
\* the candidates in the pawn's own column
ForwardCandidates(r, c) ==
    LET moves == get_possible_moves(board, r, c)
    IN {i \in 1..Len(moves) : moves[i][2] = c}

\* C11: a pawn on its start rank with both squares in front of it empty has
\* exactly the one-step and the two-step square as candidates in its column;
\* the two-step square is a candidate only from the start rank with both
\* squares empty, and no candidate in the pawn's column is an occupied square.
C11_PawnForwardMoves ==
    \A r \in Rows : \A c \in Rows :
       board[r][c] \in {1, 7} =>
          LET white == board[r][c] = 1
              d == IF white THEN -1 ELSE 1
              start_row == IF white THEN 6 ELSE 1
              moves == get_possible_moves(board, r, c)
              fwd == ForwardCandidates(r, c)
          IN /\ (r = start_row /\ board[r + d][c] = 0 /\ board[r + 2 * d][c] = 0)
                  => /\ {moves[i] : i \in fwd} = {<<r + d, c>>, <<r + 2 * d, c>>}
                     /\ Cardinality(fwd) = 2
             /\ \A i \in 1..Len(moves) :
                  moves[i] = <<r + 2 * d, c>>
                     => r = start_row /\ board[r + d][c] = 0 /\ board[r + 2 * d][c] = 0
             /\ \A i \in fwd : board[moves[i][1]][moves[i][2]] = 0

\* the candidates of a Black pawn on its start rank were generated: both
\* forward squares and a capture of the White knight diagonally in front
C11_Witness ==
    /\ turn.exit = "generated"
    /\ turn.scode = 7 /\ turn.sr = 1 /\ turn.sc = 2
    /\ turn.moves = <<<<2, 2>>, <<3, 2>>, <<2, 3>>>>

\* ---- labels and coordinates ------------------------------------------------
\* the state play_game starts a game in (lines 286-291)
NewGame ==
    /\ board = create_initial_board_tf
    /\ en_passant_target = None
    /\ ~white_king_moved /\ ~black_king_moved
    /\ ~white_rook_moved_k /\ ~white_rook_moved_q
    /\ ~black_rook_moved_k /\ ~black_rook_moved_q

\* the menu of line 313 for the piece on the square labelled pos
Menu(pos) ==
    LET p == pos_to_coord(pos)
        moves == get_possible_moves(board, p[1], p[2])
    IN [i \in 1..Len(moves) |-> coord_to_pos(moves[i][1], moves[i][2])]

\* C12: in the state of a new game the candidates of the White pawn on e2
\* are exactly e3 and e4.
C12_NewGamePawnE2 ==
    NewGame =>
       /\ get_piece(board, pos_to_coord(<<"e", "2">>)[1], pos_to_coord(<<"e", "2">>)[2]) = 1
       /\ Len(Menu(<<"e", "2">>)) = 2
       /\ {Menu(<<"e", "2">>)[i] : i \in 1..2} = {<<"e", "3">>, <<"e", "4">>}

\* in a new game e2 was typed and its candidates were generated; the menu
\* number typed after it was not on the menu, so the state is still a new game
C12_Witness ==
    /\ NewGame /\ plies = 0
    /\ turn.start = <<"e", "2">> /\ turn.exit = "invalid_input"
    /\ turn.moves = <<<<5, 4>>, <<4, 4>>>>

\* C13: pos_to_coord maps file a..h to column 0..7 and rank 1..8 to row 7..0,
\* and coord_to_pos is its inverse on the 64 labels and the 64 squares; the
\* coordinates an iteration computed for a label are the ones of this map.
C13_CoordinateBijection ==
    /\ \A f \in 1..8 : \A k \in 1..8 :
          LET p == <<FileChars[f], DigitChars[k + 1]>>
          IN /\ pos_to_coord(p) = <<8 - k, f - 1>>
             /\ coord_to_pos(pos_to_coord(p)[1], pos_to_coord(p)[2]) = p
    /\ \A r \in Rows : \A c \in Rows :
          /\ coord_to_pos(r, c) \in Labels
          /\ pos_to_coord(coord_to_pos(r, c)) = <<r, c>>
    /\ turn.start \in Labels =>
          /\ in_bounds(turn.sr, turn.sc)
          /\ coord_to_pos(turn.sr, turn.sc) = turn.start

\* h8 was typed and read as row 0, column 7
C13_Witness ==
    /\ turn.start = <<"h", "8">>
    /\ turn.sr = 0 /\ turn.sc = 7 /\ turn.scode = 8

\* ---- castling: generation and eligibility ----------------------------------
\* for the piece on (r, c): a square of its row two columns away is among its
\* candidates exactly if is_castling_move holds for that origin and destination
Agree(r, c) ==
    LET moves == get_possible_moves(board, r, c)
    IN \A ec \in {c - 2, c + 2} :
          in_bounds(r, ec) =>
             ((\E i \in 1..Len(moves) : moves[i] = <<r, ec>>)
                <=> is_castling_move(board, r, c, r, ec, white_to_move))

\* this step applied a move along a row to a square two columns away
TwoColumnTurn == AppliedStep /\ turn'.er = turn'.sr /\ abs(turn'.ec - turn'.sc) = 2

\* this step took the castling branch with the mover's king from its home square
CastledFromHome ==
    /\ turn'.scode = KingOf(white_to_move)
    /\ turn'.sr = HomeRow(white_to_move) /\ turn'.sc = 4

\* C14 as stated: for ANY piece of the side to move, a destination on its row
\* two columns away is a candidate iff is_castling_move holds; every such
\* candidate is applied as castling, and castling is only applied to a king
\* on its home square.
C14_AsStated ==
    /\ [](\A r \in Rows : \A c \in Rows :
            (board[r][c] # 0 /\ (board[r][c] <= 6) = white_to_move) => Agree(r, c))
    /\ [][/\ TwoColumnTurn => turn'.branch = "castling"
          /\ (AppliedStep /\ turn'.branch = "castling") => CastledFromHome]_vars

\* C14 (amended): for the KING of the side to move, a destination on its row
\* two columns away is a candidate iff is_castling_move holds; every such
\* candidate of a king is applied as castling, and castling is only applied
\* to a king on its home square.
C14_CastlingAgreement ==
    /\ [](\A r \in Rows : \A c \in Rows :
            board[r][c] = KingOf(white_to_move) => Agree(r, c))
    /\ [][/\ (TwoColumnTurn /\ turn'.scode = KingOf(white_to_move))
                => turn'.branch = "castling"
          /\ (AppliedStep /\ turn'.branch = "castling") => CastledFromHome]_vars

\* White's king has just gone from e1 to g1 on the castling branch
C14_Witness ==
    /\ turn.exit = "moved" /\ turn.branch = "castling"
    /\ turn.scode = 6 /\ turn.sr = 7 /\ turn.sc = 4 /\ turn.ec = 6
    /\ (\E i \in 1..Len(turn.moves) : turn.moves[i] = <<7, 6>>)

\* ---- castling: the rook -----------------------------------------------------
\* the corner the castling turn of this step takes its rook from
CastlingCorner == <<turn'.sr, IF turn'.ec > turn'.sc THEN 7 ELSE 0>>

\* C15: whenever a turn is applied as castling, the rook it relocates is the
\* rook that started the game on that corner and has stood there ever since.
C15_CastlesWithHomeRook ==
    [][(AppliedStep /\ turn'.branch = "castling") => CastlingCorner \in home_rooks]_vars

\* ---- candidates ------------------------------------------------------------
\* the step rewrote a square that held a piece of the mover's side and was
\* not a square that piece moves away from
OverwritesOwn ==
    \E r \in Rows : \E c \in Rows :
       /\ board[r][c] # 0 /\ (board[r][c] <= 6) = white_to_move
       /\ board'[r][c] # board[r][c]
       /\ <<r, c>> # <<turn'.sr, turn'.sc>>
       /\ ~(turn'.branch = "castling" /\ <<r, c>> = CastlingCorner)

\* C16: for every origin every candidate is an in-bounds square other than
\* the origin that is empty or holds a piece of the other side, generation
\* reads no square outside the board, and no applied move overwrites a piece
\* of the mover's side.
C16_CandidatesAreLegalSquares ==
    /\ [](\A r \in Rows : \A c \in Rows :
            LET moves == get_possible_moves(board, r, c)
            IN /\ \A i \in 1..Len(moves) :
                    /\ in_bounds(moves[i][1], moves[i][2])
                    /\ moves[i] # <<r, c>>
                    /\ LET t == board[moves[i][1]][moves[i][2]]
                       IN t = 0 \/ (t <= 6) # (board[r][c] <= 6)
               /\ \A q \in UnguardedReads(board, r, c) : in_bounds(q[1], q[2]))
    /\ [][AppliedStep => ~OverwritesOwn]_vars

\* Black's queen has just taken the pawn on f2
C16_Witness ==
    /\ turn.exit = "moved" /\ turn.branch = "simple"
    /\ turn.scode = 11 /\ turn.er = 6 /\ turn.ec = 5
    /\ board[6][5] = 11
    /\ scores["black_id"].points >= 1

\* ---- the en-passant target -------------------------------------------------
\* the target is an empty square of row 5 (row 2) and the square of row 4
\* (row 3) in its column holds a pawn of the side that is not to move
TargetBehindPawn ==
    LET tr == en_passant_target[1]
        tc == en_passant_target[2]
    IN /\ board[tr][tc] = 0
       /\ tr = (IF white_to_move THEN 2 ELSE 5)
       /\ board[IF white_to_move THEN 3 ELSE 4][tc] = PawnOf(~white_to_move)

\* the target is among the candidates of the piece on (r, c)
LandsOnTarget(r, c) ==
    LET moves == get_possible_moves(board, r, c)
    IN \E i \in 1..Len(moves) : moves[i] = en_passant_target

\* the piece on (r, c) is a pawn of the side to move, the target is the
\* square diagonally in front of it and the square beside it, in the target's
\* column, holds a pawn of the other side
EnPassantCapture(r, c) ==
    /\ board[r][c] = PawnOf(white_to_move)
    /\ abs(en_passant_target[2] - c) = 1
    /\ en_passant_target[1] = r + (IF white_to_move THEN -1 ELSE 1)
    /\ board[r][en_passant_target[2]] = PawnOf(~white_to_move)

\* the square handle_en_passant clears in this step held an opposing pawn
ClearsOpposingPawn ==
    (AppliedStep /\ turn'.branch = "en_passant")
       => board[turn'.sr][turn'.ec] = PawnOf(~white_to_move)

\* C17 as stated: a set target is an empty square behind a pawn of the side
\* not to move; the only candidate of ANY piece of the side to move that
\* lands on the target is an en-passant capture, and the square
\* handle_en_passant clears holds an opposing pawn.
C17_AsStated ==
    /\ []((pc = "loop" /\ en_passant_target # None) =>
            /\ TargetBehindPawn
            /\ \A r \in Rows : \A c \in Rows :
                  (board[r][c] # 0 /\ (board[r][c] <= 6) = white_to_move
                     /\ LandsOnTarget(r, c)) => EnPassantCapture(r, c))
    /\ [][ClearsOpposingPawn]_vars

\* C17 (amended): a set target is an empty square behind a pawn of the side
\* not to move; the only candidate of a PAWN of the side to move that lands
\* on the target is an en-passant capture, and the square handle_en_passant
\* clears holds an opposing pawn.
C17_EnPassantTargetInvariant ==
    /\ []((pc = "loop" /\ en_passant_target # None) =>
            /\ TargetBehindPawn
            /\ \A r \in Rows : \A c \in Rows :
                  (board[r][c] = PawnOf(white_to_move) /\ LandsOnTarget(r, c))
                     => EnPassantCapture(r, c))
    /\ [][ClearsOpposingPawn]_vars

\* Black's d-pawn has just gone from d7 to d5 past White's pawn on e5, which
\* has the target d6 among its candidates
C17_Witness ==
    /\ pc = "loop" /\ white_to_move
    /\ en_passant_target = <<2, 3>>
    /\ turn.scode = 7 /\ turn.sr = 1 /\ turn.er = 3 /\ turn.sc = 3
    /\ board[3][4] = 1
    /\ LandsOnTarget(3, 4)

\* ---- kings -----------------------------------------------------------------
\* C18: while the game is in progress a side whose king_moved flag is false
\* has its king on its home square.
C18_UnmovedKingIsHome ==
    pc = "loop" =>
       \A white \in BOOLEAN :
          ~KingMoved(white) => board[HomeRow(white)][4] = KingOf(white)

\* Black has castled kingside, White's king has not moved and stands on e1
C18_Witness ==
    /\ pc = "loop"
    /\ ~white_king_moved /\ board[7][4] = 6
    /\ black_king_moved /\ board[0][6] = 12 /\ board[0][5] = 8

\* the squares of board b that hold the piece with this code
SquaresOf(b, code) == {q \in Rows \X Rows : b[q[1]][q[2]] = code}

\* C19: while the game is in progress the board holds exactly one White and
\* exactly one Black king; no turn creates a king or removes the mover's own
\* king, and a turn that removes the other side's king ends the game.
C19_OneKingEach ==
    /\ [](pc = "loop" =>
            /\ Cardinality(SquaresOf(board, 6)) = 1
            /\ Cardinality(SquaresOf(board, 12)) = 1)
    /\ [][AppliedStep =>
            LET own == KingOf(white_to_move)
                other == KingOf(~white_to_move)
            IN /\ Cardinality(SquaresOf(board', own)) = Cardinality(SquaresOf(board, own))
               /\ Cardinality(SquaresOf(board', other)) <= Cardinality(SquaresOf(board, other))
               /\ (Cardinality(SquaresOf(board', other)) < Cardinality(SquaresOf(board, other)))
                     => pc' = "returned"]_vars

\* Black's pawn has just promoted on a1 and the game goes on with one king
\* on each side
C19_Witness ==
    /\ pc = "loop"
    /\ turn.scode = 7 /\ turn.er = 7 /\ turn.ec = 0
    /\ board[7][0] = 11
    /\ SquaresOf(board, 6) = {<<7, 4>>} /\ SquaresOf(board, 12) = {<<0, 4>>}

\* ---- the frame of an applied turn ------------------------------------------
\* the squares the branch taken in this step may rewrite
Written ==
    LET sr == turn'.sr
        sc == turn'.sc
        er == turn'.er
        ec == turn'.ec
    IN {<<sr, sc>>, <<er, ec>>} \cup
       (IF turn'.branch = "en_passant" THEN {<<sr, ec>>}
        ELSE IF turn'.branch = "castling"
        THEN {CastlingCorner, <<sr, IF ec > sc THEN 5 ELSE 3>>}
        ELSE {})

\* the number of pieces of a side on board b
Pieces(b, white) ==
    Cardinality({q \in Rows \X Rows : b[q[1]][q[2]] # 0 /\ (b[q[1]][q[2]] <= 6) = white})

\* C20: an applied turn changes only the origin and the destination, in an
\* en-passant capture also the captured pawn's square and in castling also
\* the rook's two squares; the mover keeps its number of pieces and the other
\* side loses at most one.
C20_FrameOfAppliedTurn ==
    [][AppliedStep =>
         /\ \A r \in Rows : \A c \in Rows :
               board'[r][c] # board[r][c] => <<r, c>> \in Written
         /\ Pieces(board', white_to_move) = Pieces(board, white_to_move)
         /\ Pieces(board, ~white_to_move) - Pieces(board', ~white_to_move) \in {0, 1}]_vars

\* Black's pawn on d4 has just taken the c4 pawn en passant
C20_Witness ==
    /\ turn.exit = "moved" /\ turn.branch = "en_passant"
    /\ turn.sr = 4 /\ turn.sc = 3 /\ turn.er = 5 /\ turn.ec = 2
    /\ board[5][2] = 7 /\ board[4][2] = 0 /\ board[4][3] = 0

====
